---- MODULE Spec2Model ----
(***************************************************************************)
(* cali: a nutrition logger.  One run of the program (src/src/main.rs,     *)
(* fn main) parses the command line, loads the whole store from            *)
(* data/cali_data.json, applies one command and saves the whole store.     *)
(*                                                                         *)
(* Numbers.  The accumulators are f32.  The model keeps the f32 values     *)
(* that are integers, +inf, -inf and NaN, with IEEE-754 round-to-nearest-  *)
(* even addition on them (24-bit significand): an integer above 2^24 is    *)
(* rounded to the f32 grid exactly as the hardware rounds it.              *)
(*                                                                         *)
(* Dates.  A "%Y-%m-%d" string is modelled by a natural number whose order *)
(* is the lexicographic order of the strings; 0 is a date string that is   *)
(* never today's date.                                                     *)
(*                                                                         *)
(* File.  The persisted file is a flag (does the path exist) and a         *)
(* sequence of units of text: an opening bracket, one unit per serialized  *)
(* record, a closing bracket, or text that is no JSON.                     *)
(***************************************************************************)
EXTENDS Integers, Sequences, FiniteSets, Bags, TLC

\* ------------------------------------------------------------------ bounds
MaxInvocations == 2
MaxDates == 2
MaxLogs == 3

\* 2^24: f32 has a 24-bit significand, every integer up to 2^24 is an f32.
TwoPow24 == 16777216

\* ------------------------------------------------------------------ f32
Num(i) == [k |-> "num", v |-> i]
PosInf == [k |-> "inf", v |-> 1]
NaN == [k |-> "nan", v |-> 0]

Abs(i) == IF i < 0 THEN -i ELSE i

RECURSIVE Ulp(_)
\* The spacing of the f32 grid at magnitude m (m a natural number).
Ulp(m) == IF m < TwoPow24 THEN 1 ELSE 2 * Ulp(m \div 2)

\* The f32 nearest to the integer i, ties to the even significand.
RoundF32(i) ==
    LET m == Abs(i)
        u == Ulp(m)
        q == m \div u
        r == m % u
        up == (2 * r > u) \/ (2 * r = u /\ q % 2 = 1)
        mag == IF up THEN (q + 1) * u ELSE q * u
    IN IF i < 0 THEN -mag ELSE mag

\* A slip in the +=: the amount is taken away instead of added.
F32Sub(a, b) ==
    IF a.k = "nan" \/ b.k = "nan" THEN NaN
    ELSE IF a.k = "inf" /\ b.k = "inf" THEN (IF a.v # b.v THEN a ELSE NaN)
    ELSE IF a.k = "inf" THEN a
    ELSE IF b.k = "inf" THEN [k |-> "inf", v |-> -b.v]
    ELSE Num(RoundF32(a.v - b.v))

\* a + b in f32 (the += of log_nutrition).
F32Add(a, b) ==
    IF a.k = "nan" \/ b.k = "nan" THEN NaN
    ELSE IF a.k = "inf" /\ b.k = "inf" THEN (IF a.v = b.v THEN a ELSE NaN)
    ELSE IF a.k = "inf" THEN a
    ELSE IF b.k = "inf" THEN b
    ELSE Num(RoundF32(a.v + b.v))

\* ------------------------------------------------------------ NutritionType
NutritionTypes == {"calories", "water", "protein", "carbs", "fat"}

\* ------------------------------------------------------------------ DailyLog
DailyLogNew(date) ==
    [date |-> date, calories |-> Num(0), water |-> Num(0), protein |-> Num(0),
     carbs |-> Num(0), fat |-> Num(0)]

\* --------------------------------------------------------------- serde_json
LBracket == [t |-> "[", date |-> 0, calories |-> Num(0), water |-> Num(0),
             protein |-> Num(0), carbs |-> Num(0), fat |-> Num(0)]
RBracket == [LBracket EXCEPT !.t = "]"]
Junk == [LBracket EXCEPT !.t = "junk"]
JNull == [k |-> "null", v |-> 0]

\* Serialize for f32: a finite value is written as the shortest decimal that
\* reads back as the same f32, a NaN or an infinity is written as null.
SerializeF32(x) == IF x.k = "num" THEN x ELSE JNull

\* Deserialize for f32: the number is read as an f64 and cast to f32.
DeserializeF32(j) == Num(RoundF32(j.v))

SerializeDailyLog(log) ==
    [t |-> "object", date |-> log.date,
     calories |-> SerializeF32(log.calories), water |-> SerializeF32(log.water),
     protein |-> SerializeF32(log.protein), carbs |-> SerializeF32(log.carbs),
     fat |-> SerializeF32(log.fat)]

DeserializeDailyLog(o) ==
    [date |-> o.date,
     calories |-> DeserializeF32(o.calories), water |-> DeserializeF32(o.water),
     protein |-> DeserializeF32(o.protein), carbs |-> DeserializeF32(o.carbs),
     fat |-> DeserializeF32(o.fat)]

\* serde_json::to_string_pretty(logs)
to_string_pretty(logs) ==
    <<LBracket>> \o [i \in 1..Len(logs) |-> SerializeDailyLog(logs[i])] \o <<RBracket>>

\* Whether the text is a JSON array of objects that deserialize as DailyLog:
\* null is no f32, and anything before, after or instead of the array is an error.
IsDailyLogArray(bytes) ==
    /\ Len(bytes) >= 2
    /\ bytes[1] = LBracket
    /\ bytes[Len(bytes)] = RBracket
    /\ \A i \in 2..(Len(bytes) - 1) :
          /\ bytes[i].t = "object"
          /\ \A f \in NutritionTypes : bytes[i][f].k = "num"

\* serde_json::from_str::<Vec<DailyLog>>(&contents).unwrap_or_else(|_| Vec::new())
from_str_or_empty(bytes) ==
    IF IsDailyLogArray(bytes)
    THEN [i \in 1..(Len(bytes) - 2) |-> DeserializeDailyLog(bytes[i + 1])]
    ELSE <<>>

\* ------------------------------------------------------------------ the file
AbsentFile == [exists |-> FALSE, bytes |-> <<>>]

\* A slip in save_logs: the file is opened without truncate(true).
OpenNoTruncate(file) == [exists |-> TRUE, bytes |-> file.bytes]

\* OpenOptions::new().write(true).create(true).truncate(true).open(path)
OpenTruncate(file) == [exists |-> TRUE, bytes |-> <<>>]

\* file.write_all(bytes) from the writer's offset 0: what lies beyond the
\* written text (another writer's text) stays.
WriteAll(file, bytes) ==
    [exists |-> TRUE,
     bytes |-> bytes \o SubSeq(file.bytes, Len(bytes) + 1, Len(file.bytes))]

\* ------------------------------------------------------------ Option<T>
None == [some |-> FALSE, v |-> 0]
Some(x) == [some |-> TRUE, v |-> x]
NoneF32 == [some |-> FALSE, v |-> Num(0)]

\* ------------------------------------------------------------ the store
\* The I/O operation that fails in a run, if the run gets to it.
FailPoints == {"none", "create_dir", "read", "open_write", "write"}

\* get_data_file_path: create_dir_all(...).expect(...), then the path.
get_data_file_path(dir, fail) ==
    IF fail = "create_dir" /\ ~dir
    THEN [ok |-> FALSE, dir |-> dir, trace |-> <<"create_dir_all">>]
    ELSE [ok |-> TRUE, dir |-> TRUE, trace |-> <<"create_dir_all">>]

\* A slip in load_logs: a parse error is returned (as an io::Error) instead of
\* being replaced by the empty collection.
LoadFromStrict(path, file, fail) ==
    IF ~path.ok
    THEN [status |-> "panic", logs |-> <<>>, dir |-> path.dir, trace |-> path.trace]
    ELSE IF ~file.exists
    THEN [status |-> "absent", logs |-> <<>>, dir |-> path.dir,
          trace |-> path.trace \o <<"exists">>]
    ELSE IF fail = "read" \/ ~IsDailyLogArray(file.bytes)
    THEN [status |-> "io_error", logs |-> <<>>, dir |-> path.dir,
          trace |-> path.trace \o <<"exists", "read">>]
    ELSE [status |-> "parsed",
          logs |-> from_str_or_empty(file.bytes), dir |-> path.dir,
          trace |-> path.trace \o <<"exists", "read">>]

\* load_logs once the path is known.
LoadFrom(path, file, fail) ==
    IF ~path.ok
    THEN [status |-> "panic", logs |-> <<>>, dir |-> path.dir, trace |-> path.trace]
    ELSE IF ~file.exists
    THEN [status |-> "absent", logs |-> <<>>, dir |-> path.dir,
          trace |-> path.trace \o <<"exists">>]
    ELSE IF fail = "read"
    THEN [status |-> "io_error", logs |-> <<>>, dir |-> path.dir,
          trace |-> path.trace \o <<"exists", "read">>]
    ELSE [status |-> IF IsDailyLogArray(file.bytes) THEN "parsed" ELSE "malformed",
          logs |-> from_str_or_empty(file.bytes), dir |-> path.dir,
          trace |-> path.trace \o <<"exists", "read">>]

load_logs(dir, file, fail) == LoadFrom(get_data_file_path(dir, fail), file, fail)

save_logs(file, logs, fail) ==
    IF fail = "open_write"
    THEN [ok |-> FALSE, file |-> file, trace |-> <<"create_dir_all", "open_truncate">>]
    ELSE IF fail = "write"
    THEN [ok |-> FALSE, file |-> OpenTruncate(file),
          trace |-> <<"create_dir_all", "open_truncate", "write">>]
    ELSE [ok |-> TRUE, file |-> WriteAll(OpenTruncate(file), to_string_pretty(logs)),
          trace |-> <<"create_dir_all", "open_truncate", "write">>]

\* logs.iter().position(|log| log.date == date): the first index, 0 for None.
Position(logs, date) ==
    LET hits == {i \in 1..Len(logs) : logs[i].date = date}
    IN IF hits = {} THEN 0 ELSE CHOOSE i \in hits : \A j \in hits : i <= j

\* A slip in get_or_create_today_log: a record is pushed without looking for
\* today's.
GetOrCreatePush(logs, today) ==
    [logs |-> Append(logs, DailyLogNew(today)), index |-> Len(logs) + 1]

get_or_create_today_log(logs, today) ==
    LET index == Position(logs, today)
    IN IF index # 0
       THEN [logs |-> logs, index |-> index]
       ELSE [logs |-> Append(logs, DailyLogNew(today)), index |-> Len(logs) + 1]

NoOut == [msg |-> "", shown |-> <<>>]

\* A slip in log_nutrition: = instead of +=.
LogNutritionAssign(logs, today, nutrition_type, amount) ==
    LET g == get_or_create_today_log(logs, today)
        i == g.index
        after == [g.logs EXCEPT ![i][nutrition_type] = amount]
    IN [logs |-> after, out |-> [msg |-> "Logged", shown |-> <<after[i]>>]]

log_nutrition(logs, today, nutrition_type, amount) ==
    LET g == get_or_create_today_log(logs, today)
        i == g.index
        after ==
            CASE nutrition_type = "calories" ->
                   [g.logs EXCEPT ![i].calories = F32Add(@, amount)]
              [] nutrition_type = "water" ->
                   [g.logs EXCEPT ![i].water = F32Add(@, amount)]
              [] nutrition_type = "protein" ->
                   [g.logs EXCEPT ![i].protein = F32Add(@, amount)]
              [] nutrition_type = "carbs" ->
                   [g.logs EXCEPT ![i].carbs = F32Add(@, amount)]
              [] nutrition_type = "fat" ->
                   [g.logs EXCEPT ![i].fat = F32Add(@, amount)]
    IN [logs |-> after, out |-> [msg |-> "Logged", shown |-> <<after[i]>>]]

\* A slip in reset_today_log: every record is replaced by a zeroed one.
ResetEveryLog(file, logs, today, fail) ==
    LET index == Position(logs, today)
        after == [i \in 1..Len(logs) |-> DailyLogNew(logs[i].date)]
        msg == IF index # 0 THEN "Today's nutrition data has been reset."
               ELSE "No data for today to reset."
    IN [logs |-> after, out |-> [msg |-> msg, shown |-> <<>>],
        save |-> save_logs(file, after, fail)]

reset_today_log(file, logs, today, fail) ==
    LET index == Position(logs, today)
        after == IF index # 0 THEN [logs EXCEPT ![index] = DailyLogNew(today)] ELSE logs
        msg == IF index # 0 THEN "Today's nutrition data has been reset."
               ELSE "No data for today to reset."
    IN [logs |-> after, out |-> [msg |-> msg, shown |-> <<>>],
        save |-> save_logs(file, after, fail)]

show_summary(logs, today, date_str) ==
    LET date == IF date_str.some THEN date_str.v ELSE today
        index == Position(logs, date)
    IN IF index # 0
       THEN [msg |-> "Nutrition Summary for", shown |-> <<logs[index]>>]
       ELSE [msg |-> "No data found for", shown |-> <<>>]

RECURSIVE SortNewestFirst(_)
\* sorted_logs.sort_by(|a, b| b.date.cmp(&a.date)): a stable sort, dates descending.
SortNewestFirst(logs) ==
    IF logs = <<>> THEN <<>>
    ELSE LET top == CHOOSE i \in 1..Len(logs) :
                        \A j \in 1..Len(logs) :
                            \/ logs[j].date < logs[i].date
                            \/ (logs[j].date = logs[i].date /\ i <= j)
             rest == [j \in 1..(Len(logs) - 1) |-> IF j < top THEN logs[j] ELSE logs[j + 1]]
         IN <<logs[top]>> \o SortNewestFirst(rest)

show_all_logs(logs) ==
    IF logs = <<>>
    THEN [msg |-> "No nutrition data found.", shown |-> <<>>]
    ELSE [msg |-> "All Nutrition Records", shown |-> SortNewestFirst(logs)]

\* ------------------------------------------------------------------ main
\* The parsed command line (struct Cli): the bare calories, the subcommand
\* ("" for none), and the subcommand's arguments.
Cli(calories, command, nutrition_type, amount, date) ==
    [calories |-> calories, command |-> command, nutrition_type |-> nutrition_type,
     amount |-> amount, date |-> date]

\* The match of main on the command, on what load_logs returned.
Dispatch(ld, file, today, cli, fail) ==
    CASE cli.command = "log" ->
           log_nutrition(ld.logs, today, cli.nutrition_type, cli.amount)
      [] cli.command = "summary" ->
           [logs |-> ld.logs, out |-> show_summary(ld.logs, today, cli.date)]
      [] cli.command = "history" ->
           [logs |-> ld.logs, out |-> show_all_logs(ld.logs)]
      [] cli.command = "reset" ->
           reset_today_log(file, ld.logs, today, fail)
      [] cli.command = "" /\ cli.calories.some ->
           log_nutrition(ld.logs, today, "calories", cli.calories.v)
      [] cli.command = "" /\ ~cli.calories.some ->
           [logs |-> ld.logs, out |-> [msg |-> "help", shown |-> <<>>]]

\* The end of main: save_logs(&logs)?, after the save reset_today_log made (mid).
Finally(ld, op, mid, sv) ==
    IF ~mid.ok
    THEN [dir |-> ld.dir, file |-> mid.file, logs |-> op.logs, out |-> op.out,
          exit |-> 1, trace |-> ld.trace \o mid.trace, load |-> ld.status]
    ELSE [dir |-> ld.dir, file |-> sv.file, logs |-> op.logs, out |-> op.out,
          exit |-> IF sv.ok THEN 0 ELSE 1,
          trace |-> ld.trace \o mid.trace \o sv.trace, load |-> ld.status]

NoSave(file) == [ok |-> TRUE, file |-> file, trace |-> <<>>]

\* main after let mut logs = load_logs()?
AfterLoad(ld, op, file, cli, fail) ==
    IF cli.command = "" /\ ~cli.calories.some
    THEN [dir |-> ld.dir, file |-> file, logs |-> op.logs, out |-> op.out,
          exit |-> 0, trace |-> ld.trace, load |-> ld.status]
    ELSE IF cli.command = "reset"
    THEN Finally(ld, op, op.save, save_logs(op.save.file, op.logs, fail))
    ELSE Finally(ld, op, NoSave(file), save_logs(file, op.logs, fail))

MainFrom(ld, file, today, cli, fail) ==
    IF ld.status \in {"panic", "io_error"}
    THEN [dir |-> ld.dir, file |-> file, logs |-> <<>>, out |-> NoOut,
          exit |-> IF ld.status = "panic" THEN 101 ELSE 1,
          trace |-> ld.trace, load |-> ld.status]
    ELSE AfterLoad(ld, Dispatch(ld, file, today, cli, fail), file, cli, fail)

\* One run of the program: what it leaves behind.
main(dir, file, today, cli, fail) ==
    MainFrom(load_logs(dir, file, fail), file, today, cli, fail)

\* ------------------------------------------------ the program, run by run
VARIABLES
    dir,        \* does the data directory exist
    file,       \* the persisted file data/cali_data.json
    today,      \* the local date
    cli,        \* the running (or last) run's parsed command line
    fail,       \* the I/O operation that fails in that run, if it gets to it
    logs,       \* that run's Vec<DailyLog> when it ended
    out,        \* what that run printed
    exit,       \* that run's exit status
    trace,      \* the file-system calls that run made, in order
    load,       \* how load_logs ended in that run ("" between runs)
    n,          \* the number of runs so far
    fileB,      \* a second store, given the same log runs in another order
    pending,    \* the log runs the first store has had and the second has not
    exact,      \* per category, the exact sum of the finite amounts logged
    mag,        \* per category, the sum of their magnitudes
    finite,     \* whether every amount logged was finite
    pc,         \* two simultaneous runs: where each is
    rcli,       \* ... its command line
    rloaded,    \* ... what its load_logs returned
    rlogs,      \* ... the collection it saves
    torn,       \* ... whether it read the file between the other's truncate and write
    interleaved,\* whether one run truncated between the other's truncate and write
    lastWriter  \* the run that wrote last (0: none yet)

runVars == <<dir, file, today, cli, fail, logs, out, exit, trace, load, n>>
orderVars == <<fileB, pending, exact, mag, finite>>
raceVars == <<pc, rcli, rloaded, rlogs, torn, interleaved, lastWriter>>
vars == <<runVars, orderVars, raceVars>>

\* Amounts the argument parser accepts: "1", "-1" (after "--"), "inf", and for
\* the bare shorthand "NaN" too.
Amounts == {Num(1), Num(-1), PosInf}
BareAmounts == Amounts \cup {NaN}

NoCli == Cli(NoneF32, "", "calories", Num(0), None)
CliLog(nt, a) == Cli(NoneF32, "log", nt, a, None)
CliCalories(a) == Cli(Some(a), "", "calories", Num(0), None)
CliSummary(d) == Cli(NoneF32, "summary", "calories", Num(0), d)
CliHistory == Cli(NoneF32, "history", "calories", Num(0), None)
CliReset == Cli(NoneF32, "reset", "calories", Num(0), None)

\* Whether the command line logs an amount, and the amount it logs.
IsLog(c) == c.command = "log" \/ (c.command = "" /\ c.calories.some)
AmountOf(c) == IF c.command = "log" THEN c.amount ELSE c.calories.v

Dates == 1..MaxDates

Procs == {1, 2}

NoRun ==
    /\ cli = NoCli
    /\ fail = "none"
    /\ logs = <<>>
    /\ out = NoOut
    /\ exit = 0
    /\ trace = <<>>
    /\ load = ""

NoOrder ==
    /\ fileB = AbsentFile
    /\ pending = EmptyBag
    /\ exact = [nt \in NutritionTypes |-> 0]
    /\ mag = [nt \in NutritionTypes |-> 0]
    /\ finite = TRUE

NoRace ==
    /\ pc = [p \in Procs |-> "done"]
    /\ rcli = [p \in Procs |-> NoCli]
    /\ rloaded = [p \in Procs |-> <<>>]
    /\ rlogs = [p \in Procs |-> <<>>]
    /\ torn = [p \in Procs |-> FALSE]
    /\ interleaved = FALSE
    /\ lastWriter = 0

\* The store after one run, "cali 1" on date 1, on an absent file.
DayOneStore == <<[DailyLogNew(1) EXCEPT !.calories = Num(1)]>>

\* The program starts on no file, on an empty file, on a file that is no JSON,
\* or on the file its own first run leaves.
Init ==
    /\ file \in {AbsentFile, [exists |-> TRUE, bytes |-> <<>>],
                 [exists |-> TRUE, bytes |-> <<Junk>>],
                 [exists |-> TRUE, bytes |-> to_string_pretty(DayOneStore)]}
    /\ dir \in {file.exists, TRUE}
    /\ today = 1
    /\ n = 0
    /\ NoRun
    /\ NoOrder
    /\ NoRace

\* The I/O operations a run started now can get to: create_dir_all does
\* nothing on a directory that is there, and an absent file is not read.
Reachable ==
    (FailPoints \ (IF dir THEN {"create_dir"} ELSE {}))
        \ (IF file.exists THEN {} ELSE {"read"})

\* One run of the program, from its start to its exit status, on the command
\* line cli' and with the failing I/O operation fail'.
Run ==
    /\ load = ""
    /\ n < MaxInvocations
    /\ LET r == main(dir, file, today, cli', fail')
       IN /\ dir' = r.dir
          /\ file' = r.file
          /\ logs' = r.logs
          /\ out' = r.out
          /\ exit' = r.exit
          /\ trace' = r.trace
          /\ load' = r.load
    /\ n' = n + 1
    /\ UNCHANGED <<today, orderVars, raceVars>>

Log ==
    \E nt \in NutritionTypes, a \in Amounts, f \in Reachable :
        /\ cli' = CliLog(nt, a)
        /\ fail' = f
        /\ Run

Calories ==
    \E a \in BareAmounts, f \in Reachable :
        /\ cli' = CliCalories(a)
        /\ fail' = f
        /\ Run

Summary ==
    \E d \in {None} \cup {Some(x) : x \in 0..MaxDates}, f \in Reachable :
        /\ cli' = CliSummary(d)
        /\ fail' = f
        /\ Run

History ==
    \E f \in Reachable :
        /\ cli' = CliHistory
        /\ fail' = f
        /\ Run

Reset ==
    \E f \in Reachable :
        /\ cli' = CliReset
        /\ fail' = f
        /\ Run

Help ==
    \E f \in Reachable :
        /\ cli' = NoCli
        /\ fail' = f
        /\ Run

\* The process is gone: only the directory and the file outlive it.
Finish ==
    /\ load # ""
    /\ cli' = NoCli
    /\ fail' = "none"
    /\ logs' = <<>>
    /\ out' = NoOut
    /\ exit' = 0
    /\ trace' = <<>>
    /\ load' = ""
    /\ UNCHANGED <<dir, file, today, n, orderVars, raceVars>>

\* The local date moves on between runs.
Midnight ==
    /\ load = ""
    /\ today < MaxDates
    /\ today' = today + 1
    /\ UNCHANGED <<dir, file, cli, fail, logs, out, exit, trace, load, n, orderVars, raceVars>>

Next == Log \/ Calories \/ Summary \/ History \/ Reset \/ Help \/ Finish \/ Midnight

Spec == Init /\ [][Next]_vars

\* ------------------------------------- the same log runs in another order
\* Amounts for the log runs whose order is permuted: small ones, 2^24 (where
\* f32 addition starts to round) and "inf".
OrderAmounts == {Num(1), Num(TwoPow24), PosInf}

InitOrder ==
    /\ file = AbsentFile
    /\ dir = FALSE
    /\ today = 1
    /\ n = 0
    /\ NoRun
    /\ NoOrder
    /\ NoRace

\* A whole log run c on the first store, from load_logs to the process's
\* end (what outlives it is the directory and the file), remembered as
\* pending for the second store.
RunFirst(c) ==
    /\ LET r == main(dir, file, today, c, "none")
       IN /\ dir' = r.dir
          /\ file' = r.file
    /\ n' = n + 1
    /\ pending' = pending (+) SetToBag({c})
    /\ LET nt == IF c.command = "log" THEN c.nutrition_type ELSE "calories"
           a == AmountOf(c)
       IN /\ finite' = (finite /\ a.k = "num")
          /\ exact' = IF a.k = "num" THEN [exact EXCEPT ![nt] = @ + a.v] ELSE exact
          /\ mag' = IF a.k = "num" THEN [mag EXCEPT ![nt] = @ + Abs(a.v)] ELSE mag
    /\ UNCHANGED <<today, cli, fail, logs, out, exit, trace, load, fileB, raceVars>>

OrderLog ==
    \E nt \in NutritionTypes, a \in OrderAmounts :
        /\ n < MaxLogs
        /\ RunFirst(CliLog(nt, a))

OrderCalories ==
    \E a \in OrderAmounts :
        /\ n < MaxLogs
        /\ RunFirst(CliCalories(a))

\* Any one of the pending log runs, on the second store.
RunSecond ==
    \E c \in BagToSet(pending) :
        /\ fileB' = main(TRUE, fileB, today, c, "none").file
        /\ pending' = pending (-) SetToBag({c})
        /\ UNCHANGED <<runVars, exact, mag, finite, raceVars>>

NextOrder == OrderLog \/ OrderCalories \/ RunSecond

SpecOrder == InitOrder /\ [][NextOrder]_vars

\* ------------------------------------------------- two simultaneous runs
RaceAmounts == {Num(1), Num(2)}

RaceClis ==
    {CliLog(nt, a) : nt \in NutritionTypes, a \in RaceAmounts}
        \cup {CliCalories(a) : a \in RaceAmounts}
        \cup {CliSummary(None), CliHistory}

InitRace ==
    /\ file = [exists |-> TRUE, bytes |-> to_string_pretty(DayOneStore)]
    /\ dir = TRUE
    /\ today \in Dates
    /\ n = 0
    /\ NoRun
    /\ NoOrder
    /\ pc = [p \in Procs |-> "start"]
    /\ rcli = [p \in Procs |-> NoCli]
    /\ rloaded = [p \in Procs |-> <<>>]
    /\ rlogs = [p \in Procs |-> <<>>]
    /\ torn = [p \in Procs |-> FALSE]
    /\ interleaved = FALSE
    /\ lastWriter = 0

\* Whether another run has truncated the file and not yet written it.
OtherMidSave(p) == \E q \in Procs \ {p} : pc[q] = "truncated"

\* main up to the save: load_logs()? and the match on the command.
RaceLoad(p) ==
    /\ pc[p] = "start"
    /\ \E c \in RaceClis :
          LET ld == load_logs(dir, file, "none")
          IN /\ rcli' = [rcli EXCEPT ![p] = c]
             /\ rloaded' = [rloaded EXCEPT ![p] = ld.logs]
             /\ rlogs' = [rlogs EXCEPT ![p] = Dispatch(ld, file, today, c, "none").logs]
    /\ torn' = [torn EXCEPT ![p] = OtherMidSave(p)]
    /\ pc' = [pc EXCEPT ![p] = "loaded"]
    /\ UNCHANGED <<runVars, orderVars, interleaved, lastWriter>>

\* save_logs: the open with truncate(true).
RaceTruncate(p) ==
    /\ pc[p] = "loaded"
    /\ file' = OpenTruncate(file)
    /\ interleaved' = (interleaved \/ OtherMidSave(p))
    /\ pc' = [pc EXCEPT ![p] = "truncated"]
    /\ UNCHANGED <<dir, today, cli, fail, logs, out, exit, trace, load, n>>
    /\ UNCHANGED <<orderVars, rcli, rloaded, rlogs, torn, lastWriter>>

\* save_logs: file.write_all(json.as_bytes()).
RaceWrite(p) ==
    /\ pc[p] = "truncated"
    /\ file' = WriteAll(file, to_string_pretty(rlogs[p]))
    /\ lastWriter' = p
    /\ pc' = [pc EXCEPT ![p] = "done"]
    /\ UNCHANGED <<dir, today, cli, fail, logs, out, exit, trace, load, n>>
    /\ UNCHANGED <<orderVars, rcli, rloaded, rlogs, torn, interleaved>>

NextRace == \E p \in Procs : RaceLoad(p) \/ RaceTruncate(p) \/ RaceWrite(p)

SpecRace == InitRace /\ [][NextRace]_vars

\* ================================================================ claims
\* A step that is one whole run of the program.
RunStep == load = "" /\ load' # ""

\* What a run that starts on this file loads when no I/O fails.
Loaded(f) == IF f.exists THEN from_str_or_empty(f.bytes) ELSE <<>>

\* a < b as an f32 comparison (false when either is NaN).
F32Lt(a, b) ==
    /\ a.k # "nan"
    /\ b.k # "nan"
    /\ IF a.k = "inf" THEN a.v = -1 /\ b # a
       ELSE IF b.k = "inf" THEN b.v = 1
       ELSE a.v < b.v

\* The dates of the records written in the file's text.
DatesIn(f) == {f.bytes[i].date : i \in {j \in 1..Len(f.bytes) : f.bytes[j].t = "object"}}

UniqueDates(seq) ==
    \A i, j \in 1..Len(seq) : seq[i].date = seq[j].date => i = j

Objects(bytes) == SelectSeq(bytes, LAMBDA b : b.t = "object")

\* C2 (as claimed): a summary or history run that ends with status 0 leaves
\* the persisted file exactly as it was (absent stays absent, any content
\* stays that content).
C2_ReadOnlyRunsDoNotWrite ==
    [][(RunStep /\ cli'.command \in {"summary", "history"} /\ exit' = 0)
          => file' = file]_vars

\* C3 (as claimed): from one successful run to the next state of the file, no
\* date written in the persisted store disappears.
C3_DatesNeverShrink ==
    [][(RunStep /\ exit' = 0) => DatesIn(file) \subseteq DatesIn(file')]_vars

\* C4: in every reachable state the persisted store, and the collection a
\* run holds in memory, have at most one record per date.
C4_OneRecordPerDate ==
    /\ UniqueDates(Objects(file.bytes))
    /\ UniqueDates(Loaded(file))
    /\ UniqueDates(logs)

\* C4 witness: a store with records of two dates, after a log that found
\* today's record already there and added to it.
C4_Witness ==
    /\ IsLog(cli)
    /\ exit = 0
    /\ Len(logs) = 2
    /\ logs[2].date = today
    /\ logs[2].calories = Num(2)
    /\ Loaded(file) = logs

\* C5: a reset run that ends with status 0 leaves, of the collection it
\* loaded, every record of another date as it was and today's record (if
\* there is one) with its date and five zeros; it creates no record; the file
\* then holds exactly that collection, and a summary for today run on that
\* file shows the zeros (or no data when there was no record for today).
C5_ResetOnlyToday ==
    [][(RunStep /\ cli'.command = "reset" /\ exit' = 0) =>
          LET before == Loaded(file)
              hasToday == \E i \in 1..Len(before) : before[i].date = today
              summary == show_summary(Loaded(file'), today, None)
          IN /\ Len(logs') = Len(before)
             /\ \A i \in 1..Len(before) :
                   logs'[i] = IF before[i].date = today
                              THEN DailyLogNew(today) ELSE before[i]
             /\ file' = [exists |-> TRUE, bytes |-> to_string_pretty(logs')]
             /\ Loaded(file') = logs'
             /\ summary.shown = IF hasToday THEN <<DailyLogNew(today)>> ELSE <<>>
             /\ out'.msg = IF hasToday THEN "Today's nutrition data has been reset."
                           ELSE "No data for today to reset."]_vars

\* C5 witness: a reset has zeroed today's record and the store also holds
\* another date's record with a value in it.
C5_Witness ==
    /\ cli.command = "reset"
    /\ exit = 0
    /\ out.msg = "Today's nutrition data has been reset."
    /\ Len(logs) = 2
    /\ logs[2] = DailyLogNew(today)
    /\ \E nt \in NutritionTypes : logs[1][nt] # Num(0)
    /\ Loaded(file) = logs

\* C6 (as claimed): a run with no subcommand and no bare number makes no
\* file-system call at all and ends with status 0.
C6_HelpTouchesNothing ==
    (load # "" /\ cli.command = "" /\ ~cli.calories.some) =>
        (trace = <<>> /\ exit = 0)

\* C7: a run that starts on a file that exists and does not parse ends with a
\* non-zero status exactly when an I/O operation it makes fails (the read, the
\* open for writing or the write); when the read succeeds load_logs returns
\* the empty collection, history prints the no-data message and summary the
\* no-data-for-this-date message.
C7_MalformedIsEmpty ==
    [][(RunStep /\ file.exists /\ ~IsDailyLogArray(file.bytes)) =>
          /\ (exit' # 0) <=>
                \/ fail' = "read"
                \/ (fail' \in {"open_write", "write"}
                      /\ (cli'.command # "" \/ cli'.calories.some))
          /\ fail' # "read" =>
                /\ load' = "malformed"
                /\ cli'.command = "history" => out' = [msg |-> "No nutrition data found.",
                                                       shown |-> <<>>]
                /\ cli'.command = "summary" => out' = [msg |-> "No data found for",
                                                       shown |-> <<>>]
                /\ cli'.command \in {"summary", "history", "reset"} => logs' = <<>>]_vars

\* C7 witness: history has run on a file that did not parse, printed the
\* no-data message and ended with status 0.
C7_Witness ==
    /\ load = "malformed"
    /\ cli.command = "history"
    /\ out.msg = "No nutrition data found."
    /\ exit = 0

\* C8 (as claimed): after a log or reset run that ends with status 0, loading
\* the file it saved gives back the collection the run held.
C8_SaveLoadRoundTrip ==
    (load # "" /\ exit = 0 /\ (IsLog(cli) \/ cli.command = "reset")) =>
        Loaded(file) = logs

\* C9 (as claimed): no accumulator of any record is ever below 0.
C9_NeverNegative ==
    \A i \in 1..Len(logs) : \A nt \in NutritionTypes : ~F32Lt(logs[i][nt], Num(0))

\* C9 (amended): in a run that ends with status 0, an accumulator ends below
\* what the run loaded for it (0 for a record the run created) only if the
\* run is a reset, which leaves it 0, or a log of a negative amount; no run
\* drops a record of the collection it loaded.
C9_OnlyResetOrNegativeLogLowers ==
    [][(RunStep /\ exit' = 0) =>
          LET before == Loaded(file)
          IN /\ Len(logs') >= Len(before)
             /\ \A i \in 1..Len(logs') : \A nt \in NutritionTypes :
                   LET old == IF i <= Len(before) THEN before[i][nt] ELSE Num(0)
                   IN F32Lt(logs'[i][nt], old) =>
                         \/ cli'.command = "reset" /\ logs'[i][nt] = Num(0)
                         \/ IsLog(cli') /\ F32Lt(AmountOf(cli'), Num(0))]_vars

\* C9 witness: a log of a positive amount has raised an accumulator that
\* already held a value.
C9_Witness ==
    /\ IsLog(cli)
    /\ AmountOf(cli) = Num(1)
    /\ exit = 0
    /\ \E i \in 1..Len(logs) : logs[i][cli.nutrition_type] = Num(2)

\* C1 (as claimed, read for finite amounts): once the second store has had
\* every log run the first has had (in whatever order), the first store holds
\* exactly one record, of today's date, each accumulator is the exact sum of
\* the amounts logged to its category, and the second store holds the same.
C1_SumInAnyOrder ==
    (n >= 1 /\ pending = EmptyBag /\ finite) =>
        /\ Len(Loaded(file)) = 1
        /\ Loaded(file)[1].date = today
        /\ \A nt \in NutritionTypes : Loaded(file)[1][nt] = Num(exact[nt])
        /\ Loaded(fileB) = Loaded(file)

\* C1 (amended): when every amount logged is finite and, per category, the
\* magnitudes logged total at most 2^24 (so that every partial sum, in every
\* order, is an f32), the store holds exactly one record, of today's date,
\* with each accumulator the exact sum of its category's amounts; and once
\* the second store has had the same log runs in its own order it holds the
\* same.
C1_ExactSumInAnyOrder ==
    (n >= 1 /\ finite /\ \A nt \in NutritionTypes : mag[nt] <= TwoPow24) =>
        /\ Len(Loaded(file)) = 1
        /\ Loaded(file)[1].date = today
        /\ \A nt \in NutritionTypes : Loaded(file)[1][nt] = Num(exact[nt])
        /\ pending = EmptyBag => Loaded(fileB) = Loaded(file)

\* C1 witness: three log runs (1 calorie twice, 1 of water) have reached both
\* stores.
C1_Witness ==
    /\ n = 3
    /\ pending = EmptyBag
    /\ finite
    /\ Len(Loaded(fileB)) = 1
    /\ Loaded(fileB)[1].calories = Num(2)
    /\ Loaded(fileB)[1].water = Num(1)

AllDone == \A p \in Procs : pc[p] = "done"

\* C10 (as claimed): no run reads the file between the other's truncate and
\* write, and when both runs are done the file parses and is the
\* serialization of the collection one of them computed.
C10_LastWriterWins ==
    /\ \A p \in Procs : ~torn[p]
    /\ AllDone =>
          /\ IsDailyLogArray(file.bytes)
          /\ \E p \in Procs : file.bytes = to_string_pretty(rlogs[p])

\* C10 (amended): a run that reads the file between the other's truncate and
\* write loads the empty collection, any other run loads the initial store or
\* what the other run saved; and when both runs are done and neither
\* truncated the file between the other's truncate and write, the file parses
\* and is the serialization of the collection the last writer computed.
C10_LastWriterWinsUnlessInterleaved ==
    /\ \A p \in Procs : pc[p] # "start" =>
          IF torn[p] THEN rloaded[p] = <<>>
          ELSE \/ rloaded[p] = DayOneStore
               \/ \E q \in Procs \ {p} : pc[q] = "done" /\ rloaded[p] = rlogs[q]
    /\ (AllDone /\ ~interleaved) =>
          /\ IsDailyLogArray(file.bytes)
          /\ file.bytes = to_string_pretty(rlogs[lastWriter])

\* C10 witness: both runs are done, their saves did not interleave, and the
\* last writer had read the truncated file: the record of date 1 is gone.
C10_Witness ==
    /\ AllDone
    /\ ~interleaved
    /\ torn[lastWriter]
    /\ file.bytes = to_string_pretty(rlogs[lastWriter])
    /\ \A i \in 1..Len(rlogs[lastWriter]) : rlogs[lastWriter][i].date # 1

====
